---- MODULE Spec2Model ----
(***************************************************************************)
(* Face-Heal AI prototype: the scan page (pages/ScanPage.tsx) and the      *)
(* analysis service (services/geminiService.ts, manual-validation variant  *)
(* and response-schema variant).                                           *)
(*                                                                         *)
(* Text is modelled as a sequence of tokens, a parsed JSON document as a   *)
(* tagged value, an Error object as a record with the site that created    *)
(* it and its message (a sequence of tokens).                              *)
(***************************************************************************)
EXTENDS Integers, Sequences, FiniteSets, TLC

(***************************************************************************)
(* JavaScript values as JSON.parse produces them.                          *)
(***************************************************************************)
Undefined == [t |-> "undefined"]
JNull == [t |-> "null"]
JNum(n) == [t |-> "number", n |-> n]
JStr(s) == [t |-> "string", s |-> s]
JBool(b) == [t |-> "boolean", b |-> b]
JArr(e) == [t |-> "array", e |-> e]
JObj(f) == [t |-> "object", f |-> f]

\* typeof v
TypeOf(v) ==
  CASE v.t = "undefined" -> "undefined"
    [] v.t = "number" -> "number"
    [] v.t = "string" -> "string"
    [] v.t = "boolean" -> "boolean"
    [] OTHER -> "object"

\* ToBoolean(v), as used by !v
Truthy(v) ==
  CASE v.t = "undefined" -> FALSE
    [] v.t = "null" -> FALSE
    [] v.t = "number" -> v.n # 0
    [] v.t = "string" -> v.s # ""
    [] v.t = "boolean" -> v.b
    [] OTHER -> TRUE

\* v[k] for a string key k that is not an array index (v is not null/undefined)
Get(v, k) ==
  IF v.t = "object" /\ k \in DOMAIN v.f THEN v.f[k] ELSE Undefined

\* Array.isArray(v)
IsArray(v) == v.t = "array"

\* [..strings..].includes(v): strict equality with one of the listed strings
Includes(allowed, v) == v.t = "string" /\ v.s \in allowed

\* routine.every(item => typeof item === 'string')
EveryString(v) == \A i \in 1..Len(v.e) : TypeOf(v.e[i]) = "string"

(***************************************************************************)
(* Text: tokens and messages.                                              *)
(***************************************************************************)
WS == [c |-> "ws"]
FENCE == [c |-> "fence"]
JSONTAG == [c |-> "json"]
SIG == [c |-> "sig"]
JUNK == [c |-> "junk"]
Lit(s) == [c |-> "lit", s |-> s]
Doc(v) == [c |-> "doc", v |-> v]

\* String.prototype.trim
RECURSIVE TrimLeft(_)
TrimLeft(s) == IF s # <<>> /\ Head(s) = WS THEN TrimLeft(Tail(s)) ELSE s

RECURSIVE TrimRight(_)
TrimRight(s) ==
  IF s # <<>> /\ s[Len(s)] = WS THEN TrimRight(SubSeq(s, 1, Len(s) - 1)) ELSE s

Trim(s) == TrimRight(TrimLeft(s))

\* message.includes('Requested entity was not found.')
IncludesSignal(msg) == \E i \in 1..Len(msg) : msg[i] = SIG

\* s.startsWith('```json')
StartsWithJsonFence(s) == Len(s) >= 2 /\ s[1] = FENCE /\ s[2] = JSONTAG

\* s.endsWith('```')
EndsWithFence(s) == Len(s) >= 1 /\ s[Len(s)] = FENCE

\* new Error(message), tagged with the throw site
Err(kind, msg) == [kind |-> kind, msg |-> msg]

(***************************************************************************)
(* analyzeSkinImage: what is done with the remote model's response.        *)
(***************************************************************************)
NoErr == Err("none", <<>>)
Ok(v) == [ok |-> TRUE, value |-> v, err |-> NoErr]
Fail(e) == [ok |-> FALSE, value |-> Undefined, err |-> e]

SkinTypes == {"oily", "dry", "combination", "normal", "unknown"}
FitzpatrickScales == {"I", "II", "III", "IV", "V", "VI", "unknown"}

requiredIssueKeys ==
  <<"acne", "wrinkles", "hyperpigmentation", "pores", "redness", "texture",
    "hydration", "oiliness", "darkCircles", "symmetry">>

requiredRecommendationKeys ==
  <<"morningRoutine", "eveningRoutine", "weeklyTreatments", "lifestyleTips">>

\* the condition of the first validation `if`: TRUE when the payload is rejected
TopLevelMalformed(p) ==
  \/ ~Truthy(p)
  \/ TypeOf(Get(p, "overallScore")) # "number"
  \/ ~Includes(SkinTypes, Get(p, "skinType"))
  \/ ~Includes(FitzpatrickScales, Get(p, "fitzpatrickScale"))
  \/ TypeOf(Get(p, "issues")) # "object" \/ Get(p, "issues") = JNull
  \/ TypeOf(Get(p, "recommendations")) # "object" \/ Get(p, "recommendations") = JNull
  \/ ~Truthy(Get(p, "explainability"))

TopLevelError ==
  Err("InvalidTopLevel",
      <<Lit("AI response is missing critical data or is malformed after parsing. Ensure all top-level properties (overallScore, skinType, fitzpatrickScale, issues, recommendations, explainability) are present and correctly typed.")>>)

IssueErrorScoreOnly(issues, key) ==
  LET issue == Get(issues, key) IN
  IF ~Truthy(issue) \/ TypeOf(Get(issue, "score")) # "number"
  THEN Err("InvalidIssue",
           <<Lit("AI response issue \""), Lit(key), Lit("\" is missing score or is malformed.")>>)
  ELSE NoErr

\* the body of the loop over requiredIssueKeys for one key: the error it throws, or NoErr
IssueError(issues, key) ==
  LET issue == Get(issues, key) IN
  IF ~Truthy(issue) \/ TypeOf(Get(issue, "score")) # "number"
  THEN Err("InvalidIssue",
           <<Lit("AI response issue \""), Lit(key), Lit("\" is missing score or is malformed.")>>)
  ELSE IF key = "symmetry"
  THEN IF TypeOf(Get(issue, "description")) # "string"
       THEN Err("InvalidIssue",
                <<Lit("AI response "), Lit("symmetry"), Lit(" issue is missing description or is malformed.")>>)
       ELSE NoErr
  ELSE IF TypeOf(Get(issue, "severity")) # "string"
       THEN Err("InvalidIssue",
                <<Lit("AI response issue \""), Lit(key), Lit("\" is missing severity or is malformed.")>>)
       ELSE NoErr

\* for (const key of requiredIssueKeys): the first error thrown, from index i on
RECURSIVE IssuesError(_, _)
IssuesError(issues, i) ==
  IF i > Len(requiredIssueKeys) THEN NoErr
  ELSE LET e == IssueError(issues, requiredIssueKeys[i]) IN
       IF e # NoErr THEN e ELSE IssuesError(issues, i + 1)

RecommendationError(recs, key) ==
  LET routine == Get(recs, key) IN
  IF ~IsArray(routine) \/ ~EveryString(routine)
  THEN Err("InvalidRecommendation",
           <<Lit("AI response recommendation \""), Lit(key),
             Lit("\" is missing or malformed (expected array of strings).")>>)
  ELSE NoErr

\* for (const key of requiredRecommendationKeys): the first error thrown, from index i on
RECURSIVE RecommendationsError(_, _)
RecommendationsError(recs, i) ==
  IF i > Len(requiredRecommendationKeys) THEN NoErr
  ELSE LET e == RecommendationError(recs, requiredRecommendationKeys[i]) IN
       IF e # NoErr THEN e ELSE RecommendationsError(recs, i + 1)

ValidateRebuilding(p) ==
  IF TopLevelMalformed(p) THEN Fail(TopLevelError)
  ELSE LET ie == IssuesError(Get(p, "issues"), 1) IN
       IF ie # NoErr THEN Fail(ie)
       ELSE LET re == RecommendationsError(Get(p, "recommendations"), 1) IN
            IF re # NoErr THEN Fail(re)
            ELSE Ok(JObj([k \in {"overallScore", "skinType", "fitzpatrickScale", "issues",
                                 "recommendations", "explainability"} |-> p.f[k]]))

\* the validation of the parsed payload (manual-validation variant)
Validate(p) ==
  IF TopLevelMalformed(p) THEN Fail(TopLevelError)
  ELSE LET ie == IssuesError(Get(p, "issues"), 1) IN
       IF ie # NoErr THEN Fail(ie)
       ELSE LET re == RecommendationsError(Get(p, "recommendations"), 1) IN
            IF re # NoErr THEN Fail(re) ELSE Ok(p)

\* JSON.parse(s): s holds one JSON document, possibly surrounded by whitespace
JsonParses(s) == Len(Trim(s)) = 1 /\ Trim(s)[1].c = "doc"
JsonValue(s) == Trim(s)[1].v

\* the text cleaning: the leading ```json and the trailing ``` are removed
StripFences(s) ==
  LET a == IF StartsWithJsonFence(s) THEN SubSeq(s, 3, Len(s)) ELSE s
      b == IF EndsWithFence(a) THEN SubSeq(a, 1, Len(a) - 1) ELSE a
  IN Trim(b)

\* a response of generateContent: its text getter yields a string or undefined
NoText == [hasText |-> FALSE, text |-> <<>>]
Text(s) == [hasText |-> TRUE, text |-> s]

TrimOfUndefined ==
  Err("TypeError", <<Lit("Cannot read properties of undefined (reading 'trim')")>>)

\* the try block after the remote call returned, manual-validation variant
ProcessManual(r) ==
  IF ~r.hasText THEN Fail(TrimOfUndefined)
  ELSE LET jsonStr == Trim(r.text) IN
    IF jsonStr = <<>>
    THEN Fail(Err("EmptyResponse", <<Lit("AI response was empty. Cannot parse JSON.")>>))
    ELSE LET cleaned == StripFences(jsonStr) IN
      IF cleaned = <<>>
      THEN Fail(Err("EmptyResponse",
                    <<Lit("AI response contained only markdown fences or was empty after cleaning. Cannot parse JSON.")>>))
      ELSE IF ~JsonParses(cleaned)
      THEN Fail(Err("MalformedJSON",
                    <<Lit("AI response is not valid JSON. Details: "), Lit("<parser message>"),
                      Lit(". Raw response: ")>> \o cleaned))
      ELSE Validate(JsonValue(cleaned))

\* the try block after the remote call returned, response-schema variant
ProcessSchema(r) ==
  IF ~r.hasText THEN Fail(TrimOfUndefined)
  ELSE LET jsonStr == Trim(r.text) IN
    IF ~JsonParses(jsonStr)
    THEN Fail(Err("SyntaxError", <<Lit("<parser message>")>>))
    ELSE Ok(JsonValue(jsonStr))

Process(variant, r) ==
  IF variant = "manual" THEN ProcessManual(r) ELSE ProcessSchema(r)

(***************************************************************************)
(* Credential handling (services/geminiService.ts).                        *)
(***************************************************************************)
API_KEY_REQUIRED_NO_AISTUDIO ==
  Err("API_KEY_REQUIRED_NO_AISTUDIO", <<Lit("API_KEY_REQUIRED_NO_AISTUDIO")>>)
API_KEY_SELECTION_FAILED ==
  Err("API_KEY_SELECTION_FAILED", <<Lit("API_KEY_SELECTION_FAILED")>>)
API_KEY_RESELECTION_FAILED ==
  Err("API_KEY_RESELECTION_FAILED", <<Lit("API_KEY_RESELECTION_FAILED")>>)
API_KEY_INVALID_OR_UNSELECTED_WITH_SIGNAL ==
  Err("API_KEY_INVALID_OR_UNSELECTED", <<Lit("API_KEY_INVALID_OR_UNSELECTED: "), SIG>>)

API_KEY_INVALID_OR_UNSELECTED ==
  Err("API_KEY_INVALID_OR_UNSELECTED", <<Lit("API_KEY_INVALID_OR_UNSELECTED")>>)

API_KEY_NOT_DEFINED ==
  Err("CredentialMissing", <<Lit("API_KEY is not defined. Please select an API key to proceed.")>>)

isProcessEnvApiKeySetUnchecked(key) == TRUE

\* isProcessEnvApiKeySet(), key: process.env.API_KEY is set
isProcessEnvApiKeySet(key) == key

MatchesSignalAnyMessage(e) == e.msg # <<>>

\* error.message && error.message.includes('Requested entity was not found.')
MatchesSignal(e) == e.msg # <<>> /\ IncludesSignal(e.msg)

\* handleApiKeyError(e) up to its first await: the flag it leaves, whether it now
\* awaits openSelectKey, and otherwise the error it throws
HandleStart(e, flag, picker, key) ==
  IF MatchesSignal(e)
  THEN IF picker
       THEN [matched |-> TRUE, flag |-> FALSE, await |-> TRUE, throws |-> NoErr]
       ELSE IF ~isProcessEnvApiKeySet(key)
       THEN [matched |-> TRUE, flag |-> FALSE, await |-> FALSE,
             throws |-> API_KEY_REQUIRED_NO_AISTUDIO]
       ELSE [matched |-> TRUE, flag |-> FALSE, await |-> FALSE,
             throws |-> API_KEY_INVALID_OR_UNSELECTED]
  ELSE [matched |-> FALSE, flag |-> flag, await |-> FALSE, throws |-> e]

HandlePickedFlagNotSet(ok) ==
  IF ok THEN [flag |-> FALSE, throws |-> API_KEY_INVALID_OR_UNSELECTED]
  ELSE [flag |-> FALSE, throws |-> API_KEY_RESELECTION_FAILED]

HandlePickedFailureSwallowed(ok) ==
  IF ok THEN [flag |-> TRUE, throws |-> API_KEY_INVALID_OR_UNSELECTED]
  ELSE [flag |-> FALSE, throws |-> API_KEY_INVALID_OR_UNSELECTED]

\* handleApiKeyError after openSelectKey settled: the flag it leaves and the error it throws
HandlePicked(ok) ==
  IF ok THEN [flag |-> TRUE, throws |-> API_KEY_INVALID_OR_UNSELECTED]
  ELSE [flag |-> FALSE, throws |-> API_KEY_RESELECTION_FAILED]

(***************************************************************************)
(* Inputs: the payloads and texts the remote model may return, the errors  *)
(* the remote call may fail with, the files the user may pick.             *)
(***************************************************************************)
MaxLen == 3
MaxStreams == 2
MaxPending == 2

Drop(f, k) == [x \in DOMAIN f \ {k} |-> f[x]]
Put(f, k, v) == [x \in DOMAIN f \cup {k} |-> IF x = k THEN v ELSE f[x]]
\* the object f with its entry k set to v, or without entry k when v is undefined
With(f, k, v) == IF v = Undefined THEN Drop(f, k) ELSE Put(f, k, v)

IssueKeySet == {requiredIssueKeys[i] : i \in 1..Len(requiredIssueKeys)}
RecommendationKeySet ==
  {requiredRecommendationKeys[i] : i \in 1..Len(requiredRecommendationKeys)}
TopKeys ==
  {"overallScore", "skinType", "fitzpatrickScale", "issues", "recommendations",
   "explainability"}

ValidEntry(k) ==
  IF k = "symmetry"
  THEN [score |-> JNum(80), description |-> JStr("balanced")]
  ELSE [score |-> JNum(40), severity |-> JStr("medium")]
ValidIssues == [k \in IssueKeySet |-> JObj(ValidEntry(k))]
ValidRecommendations == [k \in RecommendationKeySet |-> JArr(<<JStr("cleanse")>>)]
ValidTop ==
  [overallScore |-> JNum(72), skinType |-> JStr("oily"), fitzpatrickScale |-> JStr("III"),
   issues |-> JObj(ValidIssues), recommendations |-> JObj(ValidRecommendations),
   explainability |-> JStr("summary")]
ValidPayload == JObj(ValidTop)

Values ==
  {Undefined, JNull, JNum(0), JNum(7), JStr(""), JStr("greasy"), JBool(TRUE),
   JArr(<<>>), JArr(<<JStr("a")>>), JArr(<<JNum(1)>>), JObj(<<>>)}

WithIssue(k, v) == JObj(With(ValidTop, "issues", JObj(With(ValidIssues, k, v))))

TopDefects == {JObj(With(ValidTop, k, v)) : k \in TopKeys, v \in Values}
IssueDefects == {WithIssue(k, v) : k \in IssueKeySet, v \in Values}
IssueFieldDefects ==
  UNION {{WithIssue(k, JObj(With(ValidEntry(k), fld, v))) : k \in IssueKeySet, v \in Values}
         : fld \in {"score", "severity", "description"}}
RecommendationDefects ==
  {JObj(With(ValidTop, "recommendations", JObj(With(ValidRecommendations, k, v))))
   : k \in RecommendationKeySet, v \in Values}

\* one change to a payload: the entry k of the payload itself ("top"), of its
\* issues ("issue") or of its recommendations ("rec") is set to v, or removed
Edit(lvl, k, v) == [lvl |-> lvl, k |-> k, v |-> v]
ApplyEdit(p, e) ==
  IF e.lvl = "top" THEN JObj(With(p.f, e.k, e.v))
  ELSE IF e.lvl = "issue"
  THEN JObj(With(p.f, "issues", JObj(With(p.f.issues.f, e.k, e.v))))
  ELSE JObj(With(p.f, "recommendations", JObj(With(p.f.recommendations.f, e.k, e.v))))

Edits ==
  {Edit("top", "overallScore", Undefined), Edit("top", "skinType", JStr("greasy")),
   Edit("top", "fitzpatrickScale", JStr("VII")), Edit("top", "explainability", Undefined),
   Edit("issue", "acne", Undefined), Edit("issue", "pores", JObj([score |-> JNum(40)])),
   Edit("issue", "symmetry", JObj([score |-> JNum(80)])),
   Edit("rec", "morningRoutine", Undefined),
   Edit("rec", "lifestyleTips", JArr(<<JNum(1)>>))}

\* payloads with two defects
MultiDefects == {ApplyEdit(ApplyEdit(ValidPayload, a), b) : a, b \in Edits}

\* valid payloads with an optional areas list, out-of-range numbers, every
\* allowed enum value, an extra key
RichPayloads ==
  {ApplyEdit(ApplyEdit(ValidPayload, a), b) :
     a \in {Edit("issue", "acne",
                 JObj([score |-> JNum(40), severity |-> JStr("medium"),
                       areas |-> JArr(<<JStr("chin"), JStr("forehead")>>)])),
            Edit("top", "overallScore", JNum(250)),
            Edit("top", "overallScore", JNum(-5)),
            Edit("top", "extra", JStr("note"))},
     b \in {Edit("top", "skinType", JStr(t)) : t \in SkinTypes}
            \cup {Edit("top", "fitzpatrickScale", JStr(t)) : t \in FitzpatrickScales}}

\* payloads that are valid but for the enum value: each allowed one, and others
EnumPayloads ==
  {JObj(With(ValidTop, "skinType", JStr(t))) : t \in SkinTypes \cup {"Oily", "sensitive"}}
    \cup {JObj(With(ValidTop, "fitzpatrickScale", JStr(t))) :
            t \in FitzpatrickScales \cup {"VII", "3"}}

Payloads ==
  {ValidPayload} \cup (Values \ {Undefined}) \cup TopDefects \cup IssueDefects
    \cup IssueFieldDefects \cup RecommendationDefects \cup MultiDefects \cup RichPayloads
    \cup EnumPayloads

Alphabet == {WS, FENCE, JSONTAG, SIG, JUNK, Doc(ValidPayload)}
Texts == UNION {[1..n -> Alphabet] : n \in 0..MaxLen}
Fenced(d) == <<FENCE, JSONTAG, WS, d, WS, FENCE>>

\* the document in a fence without the json annotation
BareFenced(d) == <<FENCE, WS, d, WS, FENCE>>

Responses ==
  {NoText} \cup {Text(<<Doc(p)>>) : p \in Payloads} \cup {Text(s) : s \in Texts}
    \cup {Text(Fenced(Doc(p))) : p \in {ValidPayload, WithIssue("acne", Undefined)}}
    \cup {Text(BareFenced(Doc(p))) : p \in {ValidPayload, WithIssue("acne", Undefined)}}
    \cup {Text(<<FENCE, JSONTAG, WS, FENCE>>), Text(<<WS, FENCE, WS, FENCE, WS>>)}

\* the responses the page is explored with: one of each outcome of analyzeSkinImage
PageResponses ==
  {NoText, Text(<<>>), Text(<<SIG>>), Text(<<JUNK>>), Text(<<Doc(ValidPayload)>>),
   Text(Fenced(Doc(ValidPayload))), Text(<<Doc(JNull)>>),
   Text(<<Doc(JObj(With(ValidTop, "explainability", JNum(7))))>>),
   Text(<<Doc(WithIssue("acne", Undefined))>>)}

RemoteErrors ==
  {Err("Remote", m) : m \in {<<>>, <<JUNK>>, <<SIG>>, <<JUNK, SIG, JUNK>>}}

FileTypes == {"image/png", "image/jpeg", ""}
CameraErrorNames == {"NotAllowedError", "NotFoundError", "AbortError"}

(***************************************************************************)
(* State.                                                                  *)
(***************************************************************************)
VARIABLES
  variant,          \* which services/geminiService.ts the build resolves
  aistudio,         \* window.aistudio exists (the host's credential picker)
  envKey,           \* process.env.API_KEY is set
  hasUserSelectedApiKeyAssumeSuccess,
  mounted,          \* the ScanPage component is mounted
  loading, isInitializing, error, stream, capturedImage, imageMimeType,
  apiKeyRequired, cameraEnabled, cameraUnavailable,
  effectStream,     \* the stream the effect's cleanup closure holds
  streams,          \* every MediaStream getUserMedia returned: live?, times stopped
  initPc,           \* where init() is
  anPc,             \* where handleAnalyze is
  recLevel,         \* which handleApiKeyError call awaits the picker
  selPending,       \* handleSelectApiKey calls awaiting openSelectKey
  filePending,      \* handleFileChange awaiting fileToBase64
  retakePending,    \* retakePhoto awaiting getUserMedia
  lastResp,         \* the response of the last remote call
  calls,            \* the handleApiKeyError calls of the last analysis
  thrown,           \* the error the last analyzeSkinImage call rejected with
  remoteCalls,      \* generateContent calls of the last analysis
  pickerCalls,      \* openSelectKey calls of the last analysis
  nav               \* navigate('/results', ...) and the result it carried

envVars == <<variant, aistudio>>
pageVars ==
  <<loading, isInitializing, error, stream, capturedImage, imageMimeType,
    apiKeyRequired, cameraEnabled, cameraUnavailable>>
histVars == <<lastResp, calls, thrown, remoteCalls, pickerCalls>>
vars ==
  <<variant, aistudio, envKey, hasUserSelectedApiKeyAssumeSuccess, mounted,
    loading, isInitializing, error, stream, capturedImage, imageMimeType,
    apiKeyRequired, cameraEnabled, cameraUnavailable, effectStream, streams,
    initPc, anPc, recLevel, selPending, filePending, retakePending,
    lastResp, calls, thrown, remoteCalls, pickerCalls, nav>>

NoStream == 0
NoError == <<>>
NoFile == [on |-> FALSE, type |-> "", stream |-> NoStream]
NoResp == [hasText |-> FALSE, text |-> <<Lit("<no remote call>")>>]
NoNav == [done |-> FALSE, result |-> Undefined]

\* the record of the last analysis (lastResp, calls, thrown, remoteCalls,
\* pickerCalls) is kept until the next step taken after that analysis ended
Forget ==
  IF anPc = "idle"
  THEN /\ lastResp' = NoResp
       /\ calls' = <<>>
       /\ thrown' = NoErr
       /\ remoteCalls' = 0
       /\ pickerCalls' = 0
  ELSE UNCHANGED histVars

\* a state update of the component: dropped once the component is unmounted
S(new, old) == IF mounted THEN new ELSE old

\* stream.getTracks().forEach(track => track.stop()), for `if (stream)`
StopTracks(ss, id) ==
  IF id = NoStream THEN ss
  ELSE [ss EXCEPT ![id] = [live |-> FALSE, stops |-> @.stops + 1]]

\* getUserMedia resolved: the new MediaStream
Acquire(ss) == Append(ss, [live |-> TRUE, stops |-> 0])

VideoMountedWhenever == mounted

\* the <video> element is rendered, so videoRef.current is set
VideoMounted ==
  mounted /\ ~isInitializing /\ ~apiKeyRequired /\ ~loading
    /\ capturedImage = "none" /\ cameraEnabled

\* the capture UI (upload button, file input) is rendered
CaptureUiShown ==
  mounted /\ ~isInitializing /\ ~apiKeyRequired /\ ~loading /\ capturedImage = "none"

\* the captured image preview (analyze and retake buttons) is rendered
PreviewShown ==
  mounted /\ ~isInitializing /\ ~apiKeyRequired /\ ~loading /\ capturedImage # "none"

\* the API key prompt (select button) is rendered
KeyPromptShown == mounted /\ ~isInitializing /\ apiKeyRequired

Init ==
  /\ variant \in {"manual", "schema"}
  /\ aistudio \in BOOLEAN
  /\ envKey \in BOOLEAN
  /\ hasUserSelectedApiKeyAssumeSuccess = FALSE
  /\ mounted = TRUE
  /\ loading = FALSE
  /\ isInitializing = TRUE
  /\ error = NoError
  /\ stream = NoStream
  /\ capturedImage = "none"
  /\ imageMimeType = "null"
  /\ apiKeyRequired = FALSE
  /\ cameraEnabled = FALSE
  /\ cameraUnavailable = FALSE
  /\ effectStream = NoStream
  /\ streams = <<>>
  /\ initPc = "mount"
  /\ anPc = "idle"
  /\ recLevel = "none"
  /\ selPending = 0
  /\ filePending = NoFile
  /\ retakePending = FALSE
  /\ lastResp = NoResp
  /\ calls = <<>>
  /\ thrown = NoErr
  /\ remoteCalls = 0
  /\ pickerCalls = 0
  /\ nav = NoNav

(***************************************************************************)
(* ScanPage: the effect (init and its cleanup).                            *)
(***************************************************************************)
KeyRequiredText ==
  <<Lit("An API key is required to use this application. Please select one to proceed.")>>
KeyCheckFailedText(msg) ==
  <<Lit("Failed to check API key: ")>> \o msg \o <<Lit(". Please try again.")>>
CameraErrorTextKnownOnly(name) ==
  IF name \in {"NotAllowedError", "PermissionDeniedError"}
  THEN <<Lit("Camera access denied. Please grant permission in your browser settings or upload an image.")>>
  ELSE IF name = "NotFoundError"
  THEN <<Lit("No camera found on your device. Please upload an image manually.")>>
  ELSE NoError

CameraErrorText(name) ==
  IF name \in {"NotAllowedError", "PermissionDeniedError"}
  THEN <<Lit("Camera access denied. Please grant permission in your browser settings or upload an image.")>>
  ELSE IF name = "NotFoundError"
  THEN <<Lit("No camera found on your device. Please upload an image manually.")>>
  ELSE <<Lit("Failed to access camera: "), JUNK, Lit(". Please upload an image manually.")>>

InitStartWithoutKeyCheck ==
  /\ Forget
  /\ mounted /\ initPc = "mount"
  /\ streams' = StopTracks(streams, effectStream)
  /\ effectStream' = stream
  /\ cameraEnabled' = FALSE
  /\ cameraUnavailable' = FALSE
  /\ apiKeyRequired' = FALSE
  /\ isInitializing' = TRUE
  /\ error' = NoError
  /\ initPc' = IF aistudio THEN "hasKey" ELSE "camera"
  /\ hasUserSelectedApiKeyAssumeSuccess' =
       IF aistudio THEN hasUserSelectedApiKeyAssumeSuccess ELSE TRUE
  /\ UNCHANGED <<envVars, envKey, mounted, loading, stream, capturedImage, imageMimeType,
                 anPc, recLevel, selPending, filePending, retakePending, nav>>

\* the effect runs (on mount, and again when `stream` changed): the previous
\* cleanup, then init() up to its first pending await; checkAndPromptApiKey
\* without a picker completes here
InitStart ==
  /\ Forget
  /\ mounted /\ initPc = "mount"
  /\ streams' = StopTracks(streams, effectStream)
  /\ effectStream' = stream
  /\ cameraEnabled' = FALSE
  /\ cameraUnavailable' = FALSE
  /\ IF ~aistudio /\ ~envKey
     THEN /\ apiKeyRequired' = TRUE
          /\ isInitializing' = FALSE
          /\ error' = KeyRequiredText
          /\ initPc' = "done"
          /\ UNCHANGED hasUserSelectedApiKeyAssumeSuccess
     ELSE /\ apiKeyRequired' = FALSE
          /\ isInitializing' = TRUE
          /\ error' = NoError
          /\ initPc' = IF aistudio THEN "hasKey" ELSE "camera"
          /\ hasUserSelectedApiKeyAssumeSuccess' =
               IF aistudio THEN hasUserSelectedApiKeyAssumeSuccess ELSE TRUE
  /\ UNCHANGED <<envVars, envKey, mounted, loading, stream, capturedImage, imageMimeType,
                 anPc, recLevel, selPending, filePending, retakePending, nav>>

\* checkAndPromptApiKey: hasSelectedApiKey() resolved with hasKey
InitHasKeyResolve(hasKey) ==
  /\ Forget
  /\ initPc = "hasKey"
  /\ IF ~hasKey \/ ~hasUserSelectedApiKeyAssumeSuccess
     THEN initPc' = "picker" /\ UNCHANGED apiKeyRequired
     ELSE initPc' = "camera" /\ apiKeyRequired' = S(FALSE, apiKeyRequired)
  /\ UNCHANGED <<envVars, envKey, hasUserSelectedApiKeyAssumeSuccess, mounted, loading,
                 isInitializing, error, stream, capturedImage, imageMimeType,
                 cameraEnabled, cameraUnavailable, effectStream, streams, anPc, recLevel,
                 selPending, filePending, retakePending, nav>>

\* checkAndPromptApiKey: hasSelectedApiKey() rejected; init's catch, unexpected error
InitHasKeyReject ==
  /\ Forget
  /\ initPc = "hasKey"
  /\ initPc' = "done"
  /\ error' = S(KeyCheckFailedText(<<JUNK>>), error)
  /\ isInitializing' = S(FALSE, isInitializing)
  /\ UNCHANGED <<envVars, envKey, hasUserSelectedApiKeyAssumeSuccess, mounted, loading,
                 stream, capturedImage, imageMimeType, apiKeyRequired, cameraEnabled,
                 cameraUnavailable, effectStream, streams, anPc, recLevel, selPending,
                 filePending, retakePending, nav>>

\* checkAndPromptApiKey: openSelectKey() resolved; the host may inject the key
InitPickerResolve(inject) ==
  /\ Forget
  /\ initPc = "picker"
  /\ initPc' = "camera"
  /\ hasUserSelectedApiKeyAssumeSuccess' = TRUE
  /\ envKey' = (envKey \/ inject)
  /\ apiKeyRequired' = S(FALSE, apiKeyRequired)
  /\ UNCHANGED <<envVars, mounted, loading, isInitializing, error, stream, capturedImage,
                 imageMimeType, cameraEnabled, cameraUnavailable, effectStream, streams,
                 anPc, recLevel, selPending, filePending, retakePending, nav>>

\* checkAndPromptApiKey: openSelectKey() rejected, API_KEY_SELECTION_FAILED; init's catch
InitPickerReject ==
  /\ Forget
  /\ initPc = "picker"
  /\ initPc' = "done"
  /\ apiKeyRequired' = S(TRUE, apiKeyRequired)
  /\ isInitializing' = S(FALSE, isInitializing)
  /\ error' = S(KeyRequiredText, error)
  /\ UNCHANGED <<envVars, envKey, hasUserSelectedApiKeyAssumeSuccess, mounted, loading,
                 stream, capturedImage, imageMimeType, cameraEnabled, cameraUnavailable,
                 effectStream, streams, anPc, recLevel, selPending, filePending,
                 retakePending, nav>>

InitCameraResolveKeepingStream ==
  /\ Forget
  /\ initPc = "camera"
  /\ Len(streams) < MaxStreams
  /\ streams' = Acquire(streams)
  /\ stream' = S(Len(streams) + 1, stream)
  /\ cameraEnabled' = S(TRUE, cameraEnabled)
  /\ isInitializing' = S(FALSE, isInitializing)
  /\ initPc' = IF stream' # stream THEN "mount" ELSE "done"
  /\ UNCHANGED <<envVars, envKey, hasUserSelectedApiKeyAssumeSuccess, mounted, loading,
                 error, capturedImage, imageMimeType, apiKeyRequired, cameraUnavailable,
                 effectStream, anPc, recLevel, selPending, filePending, retakePending,
                 nav>>

\* init: getUserMedia resolved; the stream is kept only `if (videoRef.current)`
InitCameraResolve ==
  /\ Forget
  /\ initPc = "camera"
  /\ Len(streams) < MaxStreams
  /\ streams' = Acquire(streams)
  /\ stream' = IF VideoMounted THEN Len(streams) + 1 ELSE stream
  /\ cameraEnabled' = IF VideoMounted THEN TRUE ELSE cameraEnabled
  /\ isInitializing' = S(FALSE, isInitializing)
  /\ initPc' = IF stream' # stream THEN "mount" ELSE "done"
  /\ UNCHANGED <<envVars, envKey, hasUserSelectedApiKeyAssumeSuccess, mounted, loading,
                 error, capturedImage, imageMimeType, apiKeyRequired, cameraUnavailable,
                 effectStream, anPc, recLevel, selPending, filePending, retakePending,
                 nav>>

\* init: getUserMedia rejected with an error of the given name
InitCameraReject(name) ==
  /\ Forget
  /\ initPc = "camera"
  /\ initPc' = "done"
  /\ cameraUnavailable' = S(TRUE, cameraUnavailable)
  /\ error' = S(CameraErrorText(name), error)
  /\ isInitializing' = S(FALSE, isInitializing)
  /\ UNCHANGED <<envVars, envKey, hasUserSelectedApiKeyAssumeSuccess, mounted, loading,
                 stream, capturedImage, imageMimeType, apiKeyRequired, cameraEnabled,
                 effectStream, streams, anPc, recLevel, selPending, filePending,
                 retakePending, nav>>

\* the component unmounts (the user navigates away): the effect's cleanup runs
Unmount ==
  /\ Forget
  /\ mounted /\ initPc # "mount"
  /\ mounted' = FALSE
  /\ streams' = StopTracks(streams, effectStream)
  /\ UNCHANGED <<envVars, envKey, hasUserSelectedApiKeyAssumeSuccess, pageVars,
                 effectStream, initPc, anPc, recLevel, selPending, filePending,
                 retakePending, nav>>

\* the user opens the scan page again once nothing of the previous visit is pending:
\* a new component instance with the initial state; the module's flag is kept
Mount ==
  /\ Forget
  /\ ~mounted /\ initPc = "done" /\ anPc = "idle" /\ selPending = 0
  /\ ~filePending.on /\ ~retakePending
  /\ mounted' = TRUE
  /\ loading' = FALSE
  /\ isInitializing' = TRUE
  /\ error' = NoError
  /\ stream' = NoStream
  /\ capturedImage' = "none"
  /\ imageMimeType' = "null"
  /\ apiKeyRequired' = FALSE
  /\ cameraEnabled' = FALSE
  /\ cameraUnavailable' = FALSE
  /\ effectStream' = NoStream
  /\ initPc' = "mount"
  /\ nav' = NoNav
  /\ UNCHANGED <<envVars, envKey, hasUserSelectedApiKeyAssumeSuccess, streams, anPc,
                 recLevel, selPending, filePending, retakePending>>

(***************************************************************************)
(* ScanPage: the handlers of the key prompt and of the capture UI.         *)
(***************************************************************************)
SelectFailedText(msg) ==
  <<Lit("Failed to select API key: ")>> \o msg \o <<Lit(". Please try again.")>>

\* handleSelectApiKey up to its await; without window.aistudio the call throws a
\* TypeError at once and the catch and finally blocks run
handleSelectApiKey ==
  /\ Forget
  /\ KeyPromptShown
  /\ IF aistudio
     THEN /\ selPending < MaxPending
          /\ selPending' = selPending + 1
          /\ error' = NoError
          /\ loading' = TRUE
          /\ UNCHANGED apiKeyRequired
     ELSE /\ error' =
               SelectFailedText(<<Lit("Cannot read properties of undefined (reading 'openSelectKey')")>>)
          /\ apiKeyRequired' = TRUE
          /\ loading' = FALSE
          /\ UNCHANGED selPending
  /\ UNCHANGED <<envVars, envKey, hasUserSelectedApiKeyAssumeSuccess, mounted,
                 isInitializing, stream, capturedImage, imageMimeType, cameraEnabled,
                 cameraUnavailable, effectStream, streams, initPc, anPc, recLevel,
                 filePending, retakePending, nav>>

\* handleSelectApiKey: openSelectKey() resolved; the host may inject the key
SelectKeyResolve(inject) ==
  /\ Forget
  /\ selPending > 0
  /\ selPending' = selPending - 1
  /\ envKey' = (envKey \/ inject)
  /\ apiKeyRequired' = S(FALSE, apiKeyRequired)
  /\ cameraEnabled' = IF stream # NoStream THEN S(TRUE, cameraEnabled) ELSE cameraEnabled
  /\ cameraUnavailable' =
       IF stream # NoStream THEN S(FALSE, cameraUnavailable) ELSE cameraUnavailable
  /\ loading' = S(FALSE, loading)
  /\ UNCHANGED <<envVars, hasUserSelectedApiKeyAssumeSuccess, mounted, isInitializing,
                 error, stream, capturedImage, imageMimeType, effectStream, streams,
                 initPc, anPc, recLevel, filePending, retakePending, nav>>

SelectKeyRejectSilent ==
  /\ Forget
  /\ selPending > 0
  /\ selPending' = selPending - 1
  /\ apiKeyRequired' = S(TRUE, apiKeyRequired)
  /\ loading' = S(FALSE, loading)
  /\ UNCHANGED <<envVars, envKey, hasUserSelectedApiKeyAssumeSuccess, mounted,
                 isInitializing, error, stream, capturedImage, imageMimeType,
                 cameraEnabled, cameraUnavailable, effectStream, streams, initPc, anPc,
                 recLevel, filePending, retakePending, nav>>

\* handleSelectApiKey: openSelectKey() rejected
SelectKeyReject ==
  /\ Forget
  /\ selPending > 0
  /\ selPending' = selPending - 1
  /\ error' = S(SelectFailedText(<<JUNK>>), error)
  /\ apiKeyRequired' = S(TRUE, apiKeyRequired)
  /\ loading' = S(FALSE, loading)
  /\ UNCHANGED <<envVars, envKey, hasUserSelectedApiKeyAssumeSuccess, mounted,
                 isInitializing, stream, capturedImage, imageMimeType, cameraEnabled,
                 cameraUnavailable, effectStream, streams, initPc, anPc, recLevel,
                 filePending, retakePending, nav>>

\* triggerFileUpload, the user then dismisses the file dialog
triggerFileUpload ==
  /\ Forget
  /\ CaptureUiShown
  /\ error' = NoError
  /\ UNCHANGED <<envVars, envKey, hasUserSelectedApiKeyAssumeSuccess, mounted, loading,
                 isInitializing, stream, capturedImage, imageMimeType, apiKeyRequired,
                 cameraEnabled, cameraUnavailable, effectStream, streams, initPc, anPc,
                 recLevel, selPending, filePending, retakePending, nav>>

\* triggerFileUpload, the user picks a file: handleFileChange up to its await
handleFileChange(type) ==
  /\ Forget
  /\ CaptureUiShown
  /\ ~filePending.on
  /\ error' = NoError
  /\ loading' = TRUE
  /\ filePending' = [on |-> TRUE, type |-> type, stream |-> stream]
  /\ UNCHANGED <<envVars, envKey, hasUserSelectedApiKeyAssumeSuccess, mounted,
                 isInitializing, stream, capturedImage, imageMimeType, apiKeyRequired,
                 cameraEnabled, cameraUnavailable, effectStream, streams, initPc, anPc,
                 recLevel, selPending, retakePending, nav>>

\* handleFileChange: fileToBase64 resolved
FileReadResolve ==
  /\ Forget
  /\ filePending.on
  /\ filePending' = NoFile
  /\ capturedImage' = S("upload", capturedImage)
  /\ imageMimeType' = S(filePending.type, imageMimeType)
  /\ streams' = StopTracks(streams, filePending.stream)
  /\ stream' = IF filePending.stream # NoStream THEN S(NoStream, stream) ELSE stream
  /\ cameraEnabled' =
       IF filePending.stream # NoStream THEN S(FALSE, cameraEnabled) ELSE cameraEnabled
  /\ loading' = S(FALSE, loading)
  /\ initPc' = IF stream' # stream THEN "mount" ELSE initPc
  /\ UNCHANGED <<envVars, envKey, hasUserSelectedApiKeyAssumeSuccess, mounted,
                 isInitializing, error, apiKeyRequired, cameraUnavailable, effectStream,
                 anPc, recLevel, selPending, retakePending, nav>>

\* handleFileChange: fileToBase64 rejected (the FileReader's error event has no message)
FileReadReject ==
  /\ Forget
  /\ filePending.on
  /\ filePending' = NoFile
  /\ error' = S(<<Lit("Failed to process image: "), Lit("undefined")>>, error)
  /\ loading' = S(FALSE, loading)
  /\ UNCHANGED <<envVars, envKey, hasUserSelectedApiKeyAssumeSuccess, mounted,
                 isInitializing, stream, capturedImage, imageMimeType, apiKeyRequired,
                 cameraEnabled, cameraUnavailable, effectStream, streams, initPc, anPc,
                 recLevel, selPending, retakePending, nav>>

\* captureImage: offered by the "Take Photo" button, rendered only when cameraEnabled.
\* cameraEnabled is set only `if (videoRef.current)`, which no reachable state
\* satisfies, so the handler is never enabled and Next does not list it
captureImage ==
  /\ Forget
  /\ CaptureUiShown /\ cameraEnabled
  /\ error' = NoError
  /\ capturedImage' = "camera"
  /\ imageMimeType' = "image/jpeg"
  /\ streams' = StopTracks(streams, stream)
  /\ stream' = NoStream
  /\ cameraEnabled' = IF stream # NoStream THEN FALSE ELSE cameraEnabled
  /\ initPc' = IF stream' # stream THEN "mount" ELSE initPc
  /\ UNCHANGED <<envVars, envKey, hasUserSelectedApiKeyAssumeSuccess, mounted, loading,
                 isInitializing, apiKeyRequired, cameraUnavailable, effectStream, anPc,
                 recLevel, selPending, filePending, retakePending, nav>>

\* retakePhoto up to its await; with a stream held, the whole handler
retakePhoto ==
  /\ Forget
  /\ PreviewShown
  /\ error' = NoError
  /\ capturedImage' = "none"
  /\ imageMimeType' = "null"
  /\ IF stream = NoStream
     THEN /\ loading' = TRUE
          /\ retakePending' = TRUE
          /\ UNCHANGED <<cameraEnabled, cameraUnavailable>>
     ELSE /\ loading' = FALSE
          /\ cameraEnabled' = TRUE
          /\ cameraUnavailable' = FALSE
          /\ UNCHANGED retakePending
  /\ UNCHANGED <<envVars, envKey, hasUserSelectedApiKeyAssumeSuccess, mounted,
                 isInitializing, stream, apiKeyRequired, effectStream, streams, initPc,
                 anPc, recLevel, selPending, filePending, nav>>

\* retakePhoto: getUserMedia resolved; the stream is kept only `if (videoRef.current)`
RetakeCameraResolve ==
  /\ Forget
  /\ retakePending
  /\ Len(streams) < MaxStreams
  /\ retakePending' = FALSE
  /\ streams' = Acquire(streams)
  /\ stream' = IF VideoMounted THEN Len(streams) + 1 ELSE stream
  /\ cameraEnabled' = IF VideoMounted THEN TRUE ELSE cameraEnabled
  /\ cameraUnavailable' = IF VideoMounted THEN FALSE ELSE cameraUnavailable
  /\ loading' = S(FALSE, loading)
  /\ initPc' = IF stream' # stream THEN "mount" ELSE initPc
  /\ UNCHANGED <<envVars, envKey, hasUserSelectedApiKeyAssumeSuccess, mounted,
                 isInitializing, error, capturedImage, imageMimeType, apiKeyRequired,
                 effectStream, anPc, recLevel, selPending, filePending, nav>>

\* retakePhoto: getUserMedia rejected
RetakeCameraReject ==
  /\ Forget
  /\ retakePending
  /\ retakePending' = FALSE
  /\ cameraUnavailable' = S(TRUE, cameraUnavailable)
  /\ error' = S(<<Lit("Failed to re-enable camera. Please upload an image manually.")>>, error)
  /\ loading' = S(FALSE, loading)
  /\ UNCHANGED <<envVars, envKey, hasUserSelectedApiKeyAssumeSuccess, mounted,
                 isInitializing, stream, capturedImage, imageMimeType, apiKeyRequired,
                 cameraEnabled, effectStream, streams, initPc, anPc, recLevel, selPending,
                 filePending, nav>>

(***************************************************************************)
(* ScanPage.handleAnalyze and analyzeSkinImage.                            *)
(***************************************************************************)
NoImageText == <<Lit("No image to analyze. Please take a photo or upload one.")>>
KeyInvalidText ==
  <<Lit("The API key is invalid or selection was cancelled. Please select a valid API key.")>>
KeyRequiredNoPickerText ==
  <<Lit("An API key is required and cannot be automatically configured. Please select one.")>>
AnalysisFailedText(msg) ==
  <<Lit("Analysis failed: ")>> \o (IF msg # <<>> THEN msg ELSE <<Lit("Unknown error")>>)
    \o <<Lit(".")>>

\* one handleApiKeyError call, for the record of the analysis
Call(level, e, flagBefore, h) ==
  [level |-> level, input |-> e, flagBefore |-> flagBefore, matched |-> h.matched,
   picker |-> IF h.await THEN "pending" ELSE "none", flagAfter |-> h.flag,
   thrown |-> h.throws]

PageFinishStillLoading(handledError) ==
  /\ anPc' = "idle"
  /\ recLevel' = "none"
  /\ UNCHANGED loading
  /\ IF handledError.msg \in {API_KEY_INVALID_OR_UNSELECTED.msg, API_KEY_RESELECTION_FAILED.msg}
     THEN /\ apiKeyRequired' = S(TRUE, apiKeyRequired)
          /\ error' = S(KeyInvalidText, error)
     ELSE IF handledError.msg = API_KEY_REQUIRED_NO_AISTUDIO.msg
     THEN /\ apiKeyRequired' = S(TRUE, apiKeyRequired)
          /\ error' = S(KeyRequiredNoPickerText, error)
     ELSE /\ error' = S(AnalysisFailedText(handledError.msg), error)
          /\ UNCHANGED apiKeyRequired

\* the inner catch of handleAnalyze (what the page shows for handledError) and
\* its finally block
PageFinish(handledError) ==
  /\ anPc' = "idle"
  /\ recLevel' = "none"
  /\ loading' = S(FALSE, loading)
  /\ IF handledError.msg \in {API_KEY_INVALID_OR_UNSELECTED.msg, API_KEY_RESELECTION_FAILED.msg}
     THEN /\ apiKeyRequired' = S(TRUE, apiKeyRequired)
          /\ error' = S(KeyInvalidText, error)
     ELSE IF handledError.msg = API_KEY_REQUIRED_NO_AISTUDIO.msg
     THEN /\ apiKeyRequired' = S(TRUE, apiKeyRequired)
          /\ error' = S(KeyRequiredNoPickerText, error)
     ELSE /\ error' = S(AnalysisFailedText(handledError.msg), error)
          /\ UNCHANGED apiKeyRequired

\* the catch of handleAnalyze on the error err that analyzeSkinImage rejected with:
\* handleApiKeyError(err), then PageFinish unless the picker is awaited
PageCatch(err, flag, cs, pk, err0) ==
  LET h == HandleStart(err, flag, aistudio, envKey) IN
  /\ hasUserSelectedApiKeyAssumeSuccess' = h.flag
  /\ calls' = Append(cs, Call("page", err, flag, h))
  /\ IF h.await
     THEN /\ anPc' = "picker"
          /\ recLevel' = "page"
          /\ pickerCalls' = pk + 1
          /\ error' = S(err0, error)
          /\ UNCHANGED <<loading, apiKeyRequired>>
     ELSE /\ pickerCalls' = pk
          /\ PageFinish(h.throws)

\* the catch of analyzeSkinImage on the error e of its try block:
\* handleApiKeyError(e), whose error goes to handleAnalyze unless the picker is awaited
ServiceCatch(e, err0) ==
  LET flag == hasUserSelectedApiKeyAssumeSuccess
      h == HandleStart(e, flag, aistudio, envKey) IN
  IF h.await
  THEN /\ hasUserSelectedApiKeyAssumeSuccess' = h.flag
       /\ calls' = <<Call("service", e, flag, h)>>
       /\ anPc' = "picker"
       /\ recLevel' = "service"
       /\ pickerCalls' = 1
       /\ thrown' = NoErr
       /\ error' = S(err0, error)
       /\ UNCHANGED <<loading, apiKeyRequired>>
  ELSE /\ thrown' = h.throws
       /\ PageCatch(h.throws, h.flag, <<Call("service", e, flag, h)>>, 0, err0)

\* handleAnalyze up to the await of the remote call; without an image or without
\* process.env.API_KEY the whole handler
handleAnalyze ==
  /\ PreviewShown
  /\ anPc = "idle"
  /\ IF imageMimeType \in {"null", ""}
     THEN /\ error' = NoImageText
          /\ UNCHANGED <<hasUserSelectedApiKeyAssumeSuccess, loading, apiKeyRequired, anPc,
                         recLevel, histVars>>
     ELSE IF ~isProcessEnvApiKeySet(envKey)
     THEN /\ lastResp' = NoResp
          /\ remoteCalls' = 0
          /\ thrown' = API_KEY_NOT_DEFINED
          /\ PageCatch(API_KEY_NOT_DEFINED, hasUserSelectedApiKeyAssumeSuccess, <<>>, 0,
                       NoError)
     ELSE /\ error' = NoError
          /\ loading' = TRUE
          /\ anPc' = "remote"
          /\ lastResp' = NoResp
          /\ remoteCalls' = 1
          /\ calls' = <<>>
          /\ thrown' = NoErr
          /\ pickerCalls' = 0
          /\ UNCHANGED <<hasUserSelectedApiKeyAssumeSuccess, apiKeyRequired, recLevel>>
  /\ UNCHANGED <<envVars, envKey, mounted, isInitializing, stream, capturedImage,
                 imageMimeType, cameraEnabled, cameraUnavailable, effectStream, streams,
                 initPc, selPending, filePending, retakePending, nav>>

\* generateContent resolved with response r: the rest of analyzeSkinImage's try block,
\* then navigate('/results') with the result, or the catch blocks
RemoteResolve(r) ==
  /\ anPc = "remote"
  /\ lastResp' = r
  /\ LET out == Process(variant, r) IN
     IF out.ok
     THEN /\ nav' = [done |-> TRUE, result |-> out.value]
          /\ mounted' = FALSE
          /\ streams' = IF mounted THEN StopTracks(streams, effectStream) ELSE streams
          /\ loading' = S(FALSE, loading)
          /\ anPc' = "idle"
          /\ UNCHANGED <<hasUserSelectedApiKeyAssumeSuccess, error, apiKeyRequired,
                         recLevel, calls, thrown, pickerCalls>>
     ELSE /\ ServiceCatch(out.err, error)
          /\ UNCHANGED <<mounted, streams, nav>>
  /\ UNCHANGED <<envVars, envKey, isInitializing, stream, capturedImage, imageMimeType,
                 cameraEnabled, cameraUnavailable, effectStream, initPc, selPending,
                 filePending, retakePending, remoteCalls>>

\* generateContent rejected with error e: the catch blocks
RemoteReject(e) ==
  /\ anPc = "remote"
  /\ lastResp' = NoResp
  /\ ServiceCatch(e, error)
  /\ UNCHANGED <<envVars, envKey, mounted, isInitializing, stream, capturedImage,
                 imageMimeType, cameraEnabled, cameraUnavailable, effectStream, streams,
                 initPc, selPending, filePending, retakePending, remoteCalls, nav>>

\* the record of the handleApiKeyError call that awaited the picker, once it settled
Settled(c, ok) ==
  [c EXCEPT !.picker = IF ok THEN "ok" ELSE "failed",
            !.flagAfter = HandlePicked(ok).flag,
            !.thrown = HandlePicked(ok).throws]

RecoveryPickerSettleRetrying(ok, inject) ==
  /\ anPc = "picker"
  /\ envKey' = (envKey \/ (ok /\ inject))
  /\ LET hp == HandlePicked(ok)
         cs == [calls EXCEPT ![Len(calls)] = Settled(@, ok)] IN
     IF ok /\ remoteCalls < 2
     THEN /\ hasUserSelectedApiKeyAssumeSuccess' = TRUE
          /\ calls' = cs
          /\ anPc' = "remote"
          /\ recLevel' = "none"
          /\ remoteCalls' = remoteCalls + 1
          /\ UNCHANGED <<thrown, pickerCalls, loading, apiKeyRequired, error>>
     ELSE /\ UNCHANGED remoteCalls
          /\ IF recLevel = "service"
             THEN /\ thrown' = hp.throws
                  /\ PageCatch(hp.throws, hp.flag, cs, pickerCalls, error)
             ELSE /\ hasUserSelectedApiKeyAssumeSuccess' = hp.flag
                  /\ calls' = cs
                  /\ PageFinish(hp.throws)
                  /\ UNCHANGED <<thrown, pickerCalls>>
  /\ UNCHANGED <<envVars, mounted, isInitializing, stream, capturedImage, imageMimeType,
                 cameraEnabled, cameraUnavailable, effectStream, streams, initPc,
                 selPending, filePending, retakePending, lastResp, nav>>

\* handleApiKeyError: openSelectKey() settled (ok: resolved, the host may inject
\* the key); its error goes to handleAnalyze's catch, or to PageFinish
RecoveryPickerSettle(ok, inject) ==
  /\ anPc = "picker"
  /\ envKey' = (envKey \/ (ok /\ inject))
  /\ LET hp == HandlePicked(ok)
         cs == [calls EXCEPT ![Len(calls)] = Settled(@, ok)] IN
     IF recLevel = "service"
     THEN /\ thrown' = hp.throws
          /\ PageCatch(hp.throws, hp.flag, cs, pickerCalls, error)
     ELSE /\ hasUserSelectedApiKeyAssumeSuccess' = hp.flag
          /\ calls' = cs
          /\ PageFinish(hp.throws)
          /\ UNCHANGED <<thrown, pickerCalls>>
  /\ UNCHANGED <<envVars, mounted, isInitializing, stream, capturedImage, imageMimeType,
                 cameraEnabled, cameraUnavailable, effectStream, streams, initPc,
                 selPending, filePending, retakePending, lastResp, remoteCalls, nav>>

(***************************************************************************)
(* The scan page in its environment.                                       *)
(***************************************************************************)
Next ==
  \/ InitStart
  \/ \E hasKey \in BOOLEAN : InitHasKeyResolve(hasKey)
  \/ InitHasKeyReject
  \/ \E inject \in BOOLEAN : InitPickerResolve(inject)
  \/ InitPickerReject
  \/ InitCameraResolve
  \/ \E name \in CameraErrorNames : InitCameraReject(name)
  \/ Unmount
  \/ Mount
  \/ handleSelectApiKey
  \/ \E inject \in BOOLEAN : SelectKeyResolve(inject)
  \/ SelectKeyReject
  \/ triggerFileUpload
  \/ \E type \in FileTypes : handleFileChange(type)
  \/ FileReadResolve
  \/ FileReadReject
  \/ retakePhoto
  \/ RetakeCameraResolve
  \/ RetakeCameraReject
  \/ handleAnalyze
  \/ \E r \in PageResponses : RemoteResolve(r)
  \/ \E e \in RemoteErrors : RemoteReject(e)
  \/ \E ok \in BOOLEAN, inject \in BOOLEAN : RecoveryPickerSettle(ok, inject)

Spec == Init /\ [][Next]_vars

\* a step of init(): the effect starts it, or one of the calls it awaits settles
InitStep ==
  \/ InitStart
  \/ \E hasKey \in BOOLEAN : InitHasKeyResolve(hasKey)
  \/ InitHasKeyReject
  \/ \E inject \in BOOLEAN : InitPickerResolve(inject)
  \/ InitPickerReject
  \/ InitCameraResolve
  \/ \E name \in CameraErrorNames : InitCameraReject(name)

\* the scan page when the effect is run after each render that calls for it and
\* every call init() awaits settles
SpecInit == Spec /\ WF_vars(InitStep)

\* an external call awaited by a handler of the page settles
SettleStep ==
  \/ \E inject \in BOOLEAN : SelectKeyResolve(inject)
  \/ SelectKeyReject
  \/ FileReadResolve
  \/ FileReadReject
  \/ RetakeCameraResolve
  \/ RetakeCameraReject
  \/ \E r \in PageResponses : RemoteResolve(r)
  \/ \E e \in RemoteErrors : RemoteReject(e)
  \/ \E ok \in BOOLEAN, inject \in BOOLEAN : RecoveryPickerSettle(ok, inject)

\* the scan page when every call its handlers await settles
SpecSettle == Spec /\ WF_vars(SettleStep)

(***************************************************************************)
(* The analysis of one uploaded image, explored with every response of     *)
(* Responses: the page has been initialised (the camera was refused), a    *)
(* file has been uploaded and the preview is shown.  Each of these states  *)
(* is a state of Spec.                                                     *)
(***************************************************************************)
InitAnalyze ==
  /\ variant \in {"manual", "schema"}
  /\ aistudio \in BOOLEAN
  /\ envKey \in BOOLEAN
  /\ hasUserSelectedApiKeyAssumeSuccess \in BOOLEAN
  /\ aistudio \/ (envKey /\ hasUserSelectedApiKeyAssumeSuccess)
  /\ mounted = TRUE
  /\ loading = FALSE
  /\ isInitializing = FALSE
  /\ error = NoError
  /\ stream = NoStream
  /\ capturedImage = "upload"
  /\ imageMimeType = "image/png"
  /\ apiKeyRequired = FALSE
  /\ cameraEnabled = FALSE
  /\ cameraUnavailable = TRUE
  /\ effectStream = NoStream
  /\ streams = <<>>
  /\ initPc = "done"
  /\ anPc = "idle"
  /\ recLevel = "none"
  /\ selPending = 0
  /\ filePending = NoFile
  /\ retakePending = FALSE
  /\ lastResp = NoResp
  /\ calls = <<>>
  /\ thrown = NoErr
  /\ remoteCalls = 0
  /\ pickerCalls = 0
  /\ nav = NoNav

NextAnalyze ==
  \/ handleAnalyze
  \/ \E r \in Responses : RemoteResolve(r)
  \/ \E e \in RemoteErrors : RemoteReject(e)
  \/ \E ok \in BOOLEAN, inject \in BOOLEAN : RecoveryPickerSettle(ok, inject)
  \/ handleSelectApiKey
  \/ \E inject \in BOOLEAN : SelectKeyResolve(inject)
  \/ SelectKeyReject

SpecAnalyze == InitAnalyze /\ [][NextAnalyze]_vars

(***************************************************************************)
(* handleApiKeyError called on its own, once, on every error and in every  *)
(* environment.                                                            *)
(***************************************************************************)
RecoveryErrors ==
  RemoteErrors
    \cup {API_KEY_REQUIRED_NO_AISTUDIO, API_KEY_SELECTION_FAILED, API_KEY_RESELECTION_FAILED,
          API_KEY_INVALID_OR_UNSELECTED, API_KEY_NOT_DEFINED, TopLevelError}
    \cup {ProcessManual(r).err : r \in {rr \in {NoText} \cup {Text(t) : t \in Texts} :
                                         ~ProcessManual(rr).ok}}
    \cup {ProcessSchema(r).err : r \in {rr \in {NoText} \cup {Text(t) : t \in Texts} :
                                         ~ProcessSchema(rr).ok}}

\* handleApiKeyError(e) up to its await of openSelectKey, or to the error it throws
handleApiKeyError(e) ==
  /\ anPc = "idle" /\ recLevel = "none" /\ calls = <<>>
  /\ LET flag == hasUserSelectedApiKeyAssumeSuccess
         h == HandleStart(e, flag, aistudio, envKey) IN
     /\ hasUserSelectedApiKeyAssumeSuccess' = h.flag
     /\ calls' = <<Call("direct", e, flag, h)>>
     /\ recLevel' = IF h.await THEN "direct" ELSE "none"
     /\ pickerCalls' = IF h.await THEN 1 ELSE 0
     /\ thrown' = h.throws
  /\ UNCHANGED <<envVars, envKey, mounted, pageVars, effectStream, streams, initPc, anPc,
                 selPending, filePending, retakePending, lastResp, remoteCalls, nav>>

\* handleApiKeyError: openSelectKey() settled (ok: resolved, the host may inject the key)
handleApiKeyErrorSettle(ok, inject) ==
  /\ recLevel = "direct"
  /\ recLevel' = "none"
  /\ envKey' = (envKey \/ (ok /\ inject))
  /\ hasUserSelectedApiKeyAssumeSuccess' = HandlePicked(ok).flag
  /\ calls' = <<Settled(calls[1], ok)>>
  /\ thrown' = HandlePicked(ok).throws
  /\ UNCHANGED <<envVars, mounted, pageVars, effectStream, streams, initPc, anPc,
                 selPending, filePending, retakePending, lastResp, remoteCalls,
                 pickerCalls, nav>>

InitRecovery ==
  /\ variant \in {"manual", "schema"}
  /\ aistudio \in BOOLEAN
  /\ envKey \in BOOLEAN
  /\ hasUserSelectedApiKeyAssumeSuccess \in BOOLEAN
  /\ hasUserSelectedApiKeyAssumeSuccess => (aistudio \/ envKey)
  /\ mounted = TRUE
  /\ loading = FALSE
  /\ isInitializing = TRUE
  /\ error = NoError
  /\ stream = NoStream
  /\ capturedImage = "none"
  /\ imageMimeType = "null"
  /\ apiKeyRequired = FALSE
  /\ cameraEnabled = FALSE
  /\ cameraUnavailable = FALSE
  /\ effectStream = NoStream
  /\ streams = <<>>
  /\ initPc = "mount"
  /\ anPc = "idle"
  /\ recLevel = "none"
  /\ selPending = 0
  /\ filePending = NoFile
  /\ retakePending = FALSE
  /\ lastResp = NoResp
  /\ calls = <<>>
  /\ thrown = NoErr
  /\ remoteCalls = 0
  /\ pickerCalls = 0
  /\ nav = NoNav

NextRecovery ==
  \/ \E e \in RecoveryErrors : handleApiKeyError(e)
  \/ \E ok \in BOOLEAN, inject \in BOOLEAN : handleApiKeyErrorSettle(ok, inject)

SpecRecovery == InitRecovery /\ [][NextRecovery]_vars

(***************************************************************************)
(* Properties.                                                             *)
(***************************************************************************)
\* the object v has an entry k whose type tag is t
HasT(v, k, t) == v.t = "object" /\ k \in DOMAIN v.f /\ v.f[k].t = t

\* v is an array whose elements are all strings
StringList(v) == v.t = "array" /\ \A i \in 1..Len(v.e) : v.e[i].t = "string"

\* the AnalysisResult shape of the data model: every required key, correctly typed
WellTyped(p) ==
  /\ HasT(p, "overallScore", "number")
  /\ HasT(p, "skinType", "string") /\ p.f.skinType.s \in SkinTypes
  /\ HasT(p, "fitzpatrickScale", "string") /\ p.f.fitzpatrickScale.s \in FitzpatrickScales
  /\ HasT(p, "issues", "object")
  /\ \A k \in IssueKeySet :
       /\ HasT(p.f.issues, k, "object")
       /\ HasT(p.f.issues.f[k], "score", "number")
       /\ HasT(p.f.issues.f[k], IF k = "symmetry" THEN "description" ELSE "severity", "string")
  /\ HasT(p, "recommendations", "object")
  /\ \A k \in RecommendationKeySet :
       k \in DOMAIN p.f.recommendations.f /\ StringList(p.f.recommendations.f[k])
  /\ HasT(p, "explainability", "string")

\* C1: every result handed to the results screen has every required key with
\* the correct primitive type (a payload lacking one never reaches the display)
C1_ResultWellTyped == nav.done => WellTyped(nav.result)

\* the streams whose tracks are live
LiveStreams == {i \in 1..Len(streams) : streams[i].live}

\* C2: at most one camera stream is active, and every active stream is the one
\* the page holds (no acquired stream is left running without being held)
C2_OneStreamHeld ==
  /\ Cardinality(LiveStreams) <= 1
  /\ \A i \in LiveStreams : mounted /\ stream = i

\* C3: a retake whose camera acquisition succeeds leaves every earlier stream
\* stopped exactly once and ends in CameraReady (cameraEnabled, a live stream
\* held, no captured image)
C3_RetakeReturnsToCameraReady ==
  [][(retakePending /\ mounted /\ Len(streams') = Len(streams) + 1)
       => /\ \A i \in 1..Len(streams) : ~streams'[i].live /\ streams'[i].stops = 1
          /\ cameraEnabled'
          /\ stream' = Len(streams') /\ streams'[stream'].live
          /\ capturedImage' = "none"]_vars

CredentialRequired == apiKeyRequired
CameraReady == cameraEnabled /\ stream # NoStream /\ streams[stream].live
CameraUnavailable == cameraUnavailable

\* C4: when initialization finishes the page is in exactly one of
\* CredentialRequired, CameraReady, CameraUnavailable, and in CameraReady holding
\* the acquired stream when the camera acquisition succeeded
C4_InitEndsInOneState ==
  [][(mounted /\ isInitializing /\ ~isInitializing')
       => /\ Cardinality({x \in {"required", "ready", "unavailable"} :
                           \/ x = "required" /\ CredentialRequired'
                           \/ x = "ready" /\ CameraReady'
                           \/ x = "unavailable" /\ CameraUnavailable'}) = 1
          /\ (Len(streams') = Len(streams) + 1
                => CameraReady' /\ stream' = Len(streams'))]_vars

\* the message carries the "Requested entity was not found." signal
SignalIn(msg) == \E i \in 1..Len(msg) : msg[i].c = "sig"

\* C5: on an error whose message does not contain the signal, the recovery
\* procedure re-raises that same error, leaves the credential flag as it was
\* and does not invoke the picker
C5_UnrelatedErrorRethrown ==
  \A i \in 1..Len(calls) :
    ~SignalIn(calls[i].input.msg)
      => /\ calls[i].thrown = calls[i].input
         /\ thrown = calls[i].input
         /\ calls[i].picker = "none"
         /\ pickerCalls = 0
         /\ recLevel = "none"
         /\ hasUserSelectedApiKeyAssumeSuccess = calls[i].flagBefore

C5_Witness ==
  /\ Len(calls) = 1 /\ calls[1].level = "direct"
  /\ calls[1].input.kind = "Remote" /\ calls[1].input.msg = <<JUNK>>
  /\ calls[1].flagBefore /\ aistudio

NonCredentialKinds ==
  {"EmptyResponse", "MalformedJSON", "InvalidTopLevel", "InvalidIssue",
   "InvalidRecommendation"}

\* C6: an empty response, malformed JSON or a validation failure reaches the
\* caller of analyze as that same failure: no credential error replaces it, the
\* credential flag is not reset, the picker is not opened
C6_UnrelatedFailureNotMasked ==
  (calls # <<>> /\ calls[1].level = "service" /\ calls[1].input.kind \in NonCredentialKinds)
    => /\ calls[1].picker = "none"
       /\ pickerCalls = 0
       /\ thrown = calls[1].input
       /\ hasUserSelectedApiKeyAssumeSuccess = calls[1].flagBefore

C8_ReselectionFailed ==
  \A i \in 1..Len(calls) :
    (calls[i].level = "direct" /\ SignalIn(calls[i].input.msg))
      => /\ calls[i].picker # "ok" => ~hasUserSelectedApiKeyAssumeSuccess
         /\ calls[i].picker = "failed"
              => thrown.msg = <<Lit("API_KEY_RESELECTION_FAILED")>>
         /\ (~aistudio /\ ~envKey)
              => /\ thrown.msg = <<Lit("API_KEY_REQUIRED_NO_AISTUDIO")>>
                 /\ calls[i].picker = "none"

C8_Witness ==
  /\ Len(calls) = 1 /\ calls[1].level = "direct" /\ SignalIn(calls[1].input.msg)
  /\ calls[1].flagBefore /\ calls[1].picker = "failed"

C8_WitnessNoPicker ==
  /\ Len(calls) = 1 /\ calls[1].level = "direct" /\ SignalIn(calls[1].input.msg)
  /\ ~aistudio /\ ~envKey

\* an analysis that was started without an environment credential and without a
\* prior credential selection has ended
AnalyzedWithoutCredential ==
  /\ anPc = "idle" /\ thrown # NoErr /\ calls # <<>> /\ calls[1].level # "direct"
  /\ ~envKey /\ ~calls[1].flagBefore

\* C9 as stated: analyze without a prior credential and without an environment
\* credential fails with API_KEY_REQUIRED_NO_AISTUDIO (CredentialRequiredNoPicker)
\* without a remote call
C9_Original ==
  AnalyzedWithoutCredential
    => thrown.msg = <<Lit("API_KEY_REQUIRED_NO_AISTUDIO")>> /\ remoteCalls = 0

\* C9 amended: analyze without a prior credential and without an environment
\* credential fails with the error "API_KEY is not defined. ..." (CredentialMissing),
\* which is not CredentialRequiredNoPicker, without a remote call, without
\* touching the credential flag and without opening the picker
C9_CredentialMissing ==
  AnalyzedWithoutCredential
    => /\ thrown.msg = <<Lit("API_KEY is not defined. Please select an API key to proceed.")>>
       /\ thrown.msg # <<Lit("API_KEY_REQUIRED_NO_AISTUDIO")>>
       /\ remoteCalls = 0
       /\ lastResp = NoResp
       /\ pickerCalls = 0
       /\ ~hasUserSelectedApiKeyAssumeSuccess

C9_Witness == AnalyzedWithoutCredential /\ aistudio /\ mounted /\ error # NoError

\* the entry v of issue key k is absent, lacks a numeric score or lacks its
\* required string field
DefectiveEntry(k, v) ==
  \/ v = Undefined
  \/ v.t # "object"
  \/ ~HasT(v, "score", "number")
  \/ ~HasT(v, IF k = "symmetry" THEN "description" ELSE "severity", "string")

\* the response is the document p, bare or in a ```json fence
Carries(r, p) == r = Text(<<Doc(p)>>) \/ r = Text(Fenced(Doc(p)))

\* the document the last response carried, bare or in a ```json fence
CarriedPayload ==
  IF lastResp.hasText /\ Len(lastResp.text) = 1 /\ lastResp.text[1].c = "doc"
  THEN lastResp.text[1].v
  ELSE IF lastResp.hasText /\ Len(lastResp.text) = 6 /\ lastResp.text[4].c = "doc"
          /\ lastResp = Text(Fenced(lastResp.text[4]))
  THEN lastResp.text[4].v
  ELSE Undefined

\* the last response carried a payload that is valid but for its entry of issue key k
DefectiveAt(k) ==
  LET p == CarriedPayload IN
  /\ HasT(p, "issues", "object")
  /\ LET v == Get(p.f.issues, k) IN
       DefectiveEntry(k, v) /\ p = WithIssue(k, v)

\* the message names the issue key k
Names(msg, k) == \E i \in 1..Len(msg) : msg[i] = Lit(k)

\* C10: with the manual validation, a payload that is valid but for the entry of
\* one issue key (absent, no numeric score, or no string severity/description)
\* fails with InvalidIssue and the error names that key
C10_InvalidIssueNamesKey ==
  \A k \in IssueKeySet :
    (variant = "manual" /\ DefectiveAt(k))
      => /\ thrown.kind = "InvalidIssue"
         /\ Names(thrown.msg, k)
         /\ \A j \in IssueKeySet \ {k} : ~Names(thrown.msg, j)
         /\ ~nav.done

C10_Witness ==
  /\ variant = "manual" /\ thrown.kind = "InvalidIssue"
  /\ Carries(lastResp, WithIssue("symmetry", JObj([score |-> JNum(80)])))

C10_WitnessSeverity ==
  /\ variant = "manual" /\ thrown.kind = "InvalidIssue"
  /\ Carries(lastResp, WithIssue("pores", JObj([score |-> JNum(40), severity |-> JNum(7)])))

\* the failure the ordered checks of the validation call for on payload p:
\* top-level fields, skinType enum, fitzpatrickScale enum, issues in key order,
\* recommendations in key order
FirstDefectiveIssue(p) ==
  LET bad == {i \in 1..Len(requiredIssueKeys) :
                DefectiveEntry(requiredIssueKeys[i], Get(p.f.issues, requiredIssueKeys[i]))}
  IN IF bad = {} THEN "" ELSE requiredIssueKeys[CHOOSE i \in bad : \A j \in bad : i <= j]

FirstDefectiveRecommendation(p) ==
  LET bad == {i \in 1..Len(requiredRecommendationKeys) :
                LET r == Get(p.f.recommendations, requiredRecommendationKeys[i]) IN
                r = Undefined \/ ~StringList(r)}
  IN IF bad = {} THEN ""
     ELSE requiredRecommendationKeys[CHOOSE i \in bad : \A j \in bad : i <= j]

ExpectedFailure(p) ==
  IF ~(/\ HasT(p, "overallScore", "number") /\ HasT(p, "skinType", "string")
       /\ HasT(p, "fitzpatrickScale", "string")
       /\ Get(p, "issues").t \in {"object", "array"}
       /\ Get(p, "recommendations").t \in {"object", "array"}
       /\ HasT(p, "explainability", "string"))
  THEN [kind |-> "InvalidTopLevel", key |-> ""]
  ELSE IF p.f.skinType.s \notin SkinTypes THEN [kind |-> "InvalidEnum", key |-> "skinType"]
  ELSE IF p.f.fitzpatrickScale.s \notin FitzpatrickScales
  THEN [kind |-> "InvalidEnum", key |-> "fitzpatrickScale"]
  ELSE IF FirstDefectiveIssue(p) # ""
  THEN [kind |-> "InvalidIssue", key |-> FirstDefectiveIssue(p)]
  ELSE IF FirstDefectiveRecommendation(p) # ""
  THEN [kind |-> "InvalidRecommendation", key |-> FirstDefectiveRecommendation(p)]
  ELSE [kind |-> "none", key |-> ""]

\* C11: with the manual validation, the failure reported for a payload is the one
\* of the first unmet check in the order top-level fields, skinType enum,
\* fitzpatrickScale enum, issues, recommendations, each with its own kind, and
\* within issues and recommendations it names the first offending key
C11_FirstUnmetCheckReported ==
  (variant = "manual" /\ CarriedPayload # Undefined)
    => LET x == ExpectedFailure(CarriedPayload) IN
       /\ thrown.kind = x.kind
       /\ nav.done <=> x.kind = "none"
       /\ x.kind \in {"InvalidIssue", "InvalidRecommendation"}
            => /\ Names(thrown.msg, x.key)
               /\ \A j \in (IssueKeySet \cup RecommendationKeySet) \ {x.key} :
                    ~Names(thrown.msg, j)

\* C12: with the manual validation, a payload that is valid but for a skinType (or
\* a fitzpatrickScale) outside its allowed values fails with the kind
\* InvalidEnum, an error that differs from the one of a missing or mistyped
\* top-level field; with an allowed value the payload passes
C12_InvalidEnumDistinct ==
  \A k \in {"skinType", "fitzpatrickScale"} :
    LET p == CarriedPayload
        allowed == IF k = "skinType" THEN SkinTypes ELSE FitzpatrickScales IN
    (variant = "manual" /\ HasT(p, k, "string") /\ p = JObj(With(ValidTop, k, p.f[k])))
      => IF p.f[k].s \in allowed
         THEN nav.done /\ thrown = NoErr
         ELSE /\ thrown.kind = "InvalidEnum"
              /\ thrown.msg # TopLevelError.msg
              /\ ~nav.done

\* the positions of a document that the text t wraps in one leading fence (bare
\* or annotated json) and one trailing fence, with only whitespace around it
FencedDocAt(t) ==
  {i \in 2..(Len(t) - 1) :
     /\ t[i].c = "doc" /\ t[1] = FENCE /\ t[Len(t)] = FENCE
     /\ \A j \in 2..(Len(t) - 1) :
          j # i => (t[j] = WS \/ (j = 2 /\ j < i /\ t[j] = JSONTAG))}

\* C13: a response whose JSON document is wrapped in one leading fence (annotated
\* json or bare) and one trailing fence has exactly the outcome of the same
\* document without the fences: the same result reaches the results screen, or
\* the same error is raised
C13_FenceInvariance ==
  (lastResp.hasText /\ FencedDocAt(lastResp.text) # {})
    => LET i == CHOOSE i \in FencedDocAt(lastResp.text) : TRUE
           unfenced == Process(variant, Text(<<lastResp.text[i]>>)) IN
       /\ nav.done <=> unfenced.ok
       /\ unfenced.ok => nav.result = unfenced.value
       /\ ~unfenced.ok => thrown = unfenced.err

\* the text holds nothing but whitespace and fence markers (with or without
\* the json annotation after the leading one)
OnlyFences(t) ==
  LET core == Trim(t) IN
  \A j \in 1..Len(core) :
    core[j] \in {WS, FENCE} \/ (j = 2 /\ core[1] = FENCE /\ core[j] = JSONTAG)

\* C14: with the manual validation, a response that is only whitespace or only
\* fence markers fails with EmptyResponse: it is not handed to the JSON parser
\* and nothing reaches the results screen
C14_OnlyFencesIsEmptyResponse ==
  (variant = "manual" /\ lastResp.hasText /\ OnlyFences(lastResp.text))
    => thrown.kind = "EmptyResponse" /\ ~nav.done

\* the message ends with the text s
EndsWith(msg, s) ==
  Len(msg) >= Len(s) /\ SubSeq(msg, Len(msg) - Len(s) + 1, Len(msg)) = s

\* C15: with the manual validation, a response whose cleaned text is not empty
\* and is not valid JSON fails with MalformedJSON, the error carrying the
\* cleaned text; no validation error is raised and nothing reaches the results
\* screen
C15_MalformedJsonCarriesText ==
  LET cleaned == StripFences(Trim(lastResp.text)) IN
  (variant = "manual" /\ lastResp.hasText /\ cleaned # <<>> /\ ~JsonParses(cleaned))
    => /\ thrown.kind = "MalformedJSON"
       /\ EndsWith(thrown.msg, cleaned)
       /\ ~nav.done

\* the positions of the JSON documents in the last response
DocsOfResponse == {i \in 1..Len(lastResp.text) : lastResp.text[i].c = "doc"}

\* C16: when a result is handed to the results screen it is exactly the object
\* parsed from the response just received: nothing added, removed, defaulted or rounded (optional
\* areas lists, out-of-range numbers and extra keys included)
C16_ResultIsParsedObject ==
  [][(~nav.done /\ nav'.done)
       => /\ lastResp'.hasText
          /\ Cardinality(DocsOfResponse') = 1
          /\ \A i \in DocsOfResponse' : nav'.result = lastResp'.text[i].v]_vars

C16_Witness ==
  /\ nav.done /\ variant = "manual"
  /\ HasT(nav.result, "extra", "string")
  /\ nav.result.f.fitzpatrickScale = JStr("VI")

\* C17: without a credential picker, initialization accepts the environment
\* credential when there is one (the credential flag becomes selected and the
\* camera is requested); without one it ends in CredentialRequired with an error
\* shown, no camera is ever requested, and CredentialRequired is left only when
\* the user opens the page anew
C17_InitWithoutPicker ==
  /\ []((~aistudio /\ ~envKey) => (streams = <<>> /\ initPc \in {"mount", "done"}))
  /\ [][(~aistudio /\ mounted /\ initPc = "mount" /\ initPc' # "mount")
          => IF envKey
             THEN /\ hasUserSelectedApiKeyAssumeSuccess'
                  /\ initPc' = "camera"
                  /\ ~apiKeyRequired'
             ELSE /\ apiKeyRequired' /\ error' # NoError
                  /\ ~isInitializing' /\ initPc' = "done"
                  /\ Len(streams') = Len(streams)]_vars
  /\ [][(~aistudio /\ ~envKey /\ apiKeyRequired /\ ~apiKeyRequired')
          => (~mounted /\ mounted')]_vars

C17_Witness ==
  /\ mounted /\ ~aistudio /\ ~envKey /\ initPc = "done"
  /\ apiKeyRequired /\ ~isInitializing /\ error = KeyRequiredText

\* C18: when getUserMedia rejects during initialization, whatever the error's
\* name, the page is in CameraUnavailable with a non-empty reason shown,
\* initialization has ended, no stream is held, and the capture UI with its
\* upload button is rendered with no upload in progress
C18_CameraFailureDuringInit ==
  [][(mounted /\ initPc = "camera" /\ initPc' = "done" /\ streams' = streams)
       => /\ CameraUnavailable' /\ ~cameraEnabled'
          /\ error' # NoError
          /\ ~isInitializing'
          /\ stream' = NoStream
          /\ CaptureUiShown' /\ ~filePending'.on]_vars

C18_Witness ==
  /\ CameraUnavailable /\ error = CameraErrorText("AbortError")
  /\ CaptureUiShown /\ ~filePending.on /\ stream = NoStream /\ initPc = "done"

C20_CaptureFromUpload ==
  [][(mounted /\ filePending.on /\ filePending.type # ""
        /\ capturedImage = "none" /\ capturedImage' = "upload")
       => /\ imageMimeType' = filePending.type
          /\ LiveStreams' = {}
          /\ stream' = NoStream /\ ~cameraEnabled'
          /\ imageMimeType' \notin {"null", ""}]_vars

\* the alert shows handleSelectApiKey's failure message
SelectFailureShown == error # NoError /\ error[1] = Lit("Failed to select API key: ")

\* C21: the credential re-selection of the page can be invoked only in
\* CredentialRequired; when its picker call settles, the page has either left
\* CredentialRequired (success) or is in CredentialRequired showing the failure
\* text (failure), and without a picker the invocation itself ends in
\* CredentialRequired with the failure text; loading is false afterwards
C21_Reselection ==
  /\ []((ENABLED handleSelectApiKey) => CredentialRequired)
  /\ [][(mounted /\ selPending' < selPending)
          => /\ ~loading'
             /\ \/ ~CredentialRequired' /\ error' = error
                \/ CredentialRequired' /\ SelectFailureShown']_vars
  /\ [][(~aistudio /\ KeyPromptShown /\ mounted')
          => (CredentialRequired' /\ SelectFailureShown' /\ ~loading')]_vars

C21_Witness ==
  /\ mounted /\ CredentialRequired /\ ~loading /\ selPending = 0
  /\ error = SelectFailedText(<<JUNK>>)

\* the asynchronous operations of the page that are awaiting their external call
OperationsInFlight ==
  (IF initPc \in {"hasKey", "picker", "camera"} THEN 1 ELSE 0)
    + selPending
    + (IF filePending.on THEN 1 ELSE 0)
    + (IF retakePending THEN 1 ELSE 0)
    + (IF anPc \in {"remote", "picker"} THEN 1 ELSE 0)

\* C22: at most one asynchronous operation (credential check or picker, camera
\* acquisition, file read, remote analysis) is in flight at any time
C22_OneOperationInFlight == OperationsInFlight <= 1

\* C23: an analysis issues one remote call and no more, whether the call
\* fails, validation fails or the credential re-selection succeeds: the remote
\* call is entered only by the user's action on the preview while no analysis
\* runs, and the count of calls does not change while the analysis runs
C23_NoAutomaticRetry ==
  /\ [](remoteCalls <= 1)
  /\ [][(anPc # "remote" /\ anPc' = "remote")
          => (anPc = "idle" /\ PreviewShown /\ remoteCalls' = 1)]_vars
  /\ [][(anPc # "idle") => (remoteCalls' = remoteCalls)]_vars

C23_Witness ==
  /\ anPc = "idle" /\ remoteCalls = 1 /\ pickerCalls = 1
  /\ \E i \in 1..Len(calls) : calls[i].picker = "ok"

\* the failure recorded in cs is of a credential kind that still needs the user
\* to select a credential: the remote call failed with the "entity not found"
\* signal and no picker call of the recovery succeeded since
NeedsSelection(cs) ==
  /\ cs[1].input.kind = "Remote" /\ MatchesSignal(cs[1].input)
  /\ \A i \in 1..Len(cs) : cs[i].picker # "ok"

\* the alert shows the generic "Analysis failed: ..." message
GenericFailureShown == error # NoError /\ error[1] = Lit("Analysis failed: ")

\* C24: when an analysis ends in failure, an error text is shown, the page is
\* in CredentialRequired exactly when the failure is a credential failure that
\* still needs the user's selection, and every other failure (a completed
\* re-selection and every validation failure included) shows the generic
\* message without CredentialRequired
C24_FailureTreatment ==
  [][(mounted /\ ~apiKeyRequired /\ anPc' = "idle" /\ calls' # <<>> /\ calls' # calls)
       => /\ error' # NoError
          /\ CredentialRequired' <=> NeedsSelection(calls')
          /\ ~CredentialRequired' => GenericFailureShown']_vars

\* a step of handleAnalyze or of the calls it awaits
AnalysisStep == anPc' # anPc \/ (calls' # calls /\ calls' # <<>>)

\* the step at which handleAnalyze's catch has handled a failure
AnalysisFailed == anPc' = "idle" /\ calls' # calls /\ calls' # <<>>

\* C25: a failed analysis leaves the captured image, its MIME type and the
\* camera state as they were and ends, without navigation, in Captured or in
\* CredentialRequired; the results screen is entered only from the remote call
\* whose response analyzeSkinImage turned into a result
C25_FailedAnalysisFrame ==
  /\ [][(AnalysisStep /\ ~nav'.done)
          => /\ capturedImage' = capturedImage /\ imageMimeType' = imageMimeType
             /\ stream' = stream /\ streams' = streams
             /\ cameraEnabled' = cameraEnabled
             /\ cameraUnavailable' = cameraUnavailable]_vars
  /\ [][(AnalysisFailed /\ mounted)
          => /\ ~nav'.done /\ mounted' /\ ~loading'
             /\ capturedImage' # "none"
             /\ PreviewShown' \/ CredentialRequired']_vars
  /\ [][(~nav.done /\ nav'.done)
          => (anPc = "remote" /\ Process(variant, lastResp').ok)]_vars

C27_CapturedHoldsNoStream ==
  /\ []((mounted /\ capturedImage # "none") => (stream = NoStream /\ ~cameraEnabled))
  /\ [][(mounted /\ mounted' /\ capturedImage # "none" /\ capturedImage' = "none")
          => (stream = NoStream /\ retakePending' /\ loading')]_vars

C27_Witness ==
  /\ mounted /\ capturedImage = "none" /\ retakePending /\ loading
  /\ stream = NoStream /\ LiveStreams # {}

\* C28: while cameraEnabled is true the page holds a stream whose tracks have
\* not been stopped, and cameraEnabled and cameraUnavailable are not both true
C28_CameraEnabledHoldsLiveStream ==
  (mounted /\ cameraEnabled)
    => /\ stream # NoStream /\ streams[stream].live /\ streams[stream].stops = 0
       /\ ~cameraUnavailable

\* cameraEnabled is false in every state of the page
CameraNeverEnabled == ~cameraEnabled

\* C29: an analysis opens the credential picker at most once; handleApiKeyError
\* is called at most twice, and the call made by the page on the error that
\* analyzeSkinImage raised does not match the signal, leaves the flag as it
\* was, opens no picker and throws the error it was given
C29_PickerOpenedOnce ==
  /\ pickerCalls <= 1
  /\ Len(calls) <= 2
  /\ \A i \in 1..Len(calls) :
       /\ calls[i].level = "service" => i = 1
       /\ (calls[i].level = "page" /\ remoteCalls = 1)
            => /\ i = 2 /\ calls[1].level = "service"
               /\ calls[i].input = calls[1].thrown
               /\ ~calls[i].matched /\ calls[i].picker = "none"
               /\ calls[i].flagAfter = calls[i].flagBefore
               /\ calls[i].thrown = calls[i].input

C29_Witness ==
  /\ anPc = "idle" /\ pickerCalls = 1 /\ Len(calls) = 2
  /\ calls[1].level = "service" /\ calls[1].matched /\ calls[1].picker = "ok"
  /\ calls[2].level = "page" /\ ~calls[2].matched

\* a handler that sets loading is awaiting its external call
HandlerPending ==
  selPending > 0 \/ filePending.on \/ retakePending \/ anPc # "idle"

\* C30: loading is true only while a handler that set it awaits its call, and
\* once set it is cleared again when the awaited calls settle, on success and
\* on failure
C30_LoadingCleared ==
  /\ []((mounted /\ loading) => HandlerPending)
  /\ (mounted /\ loading) ~> (~mounted \/ ~loading)

C30_Witness ==
  /\ mounted /\ ~loading /\ ~HandlerPending /\ cameraUnavailable
  /\ error = <<Lit("Failed to re-enable camera. Please upload an image manually.")>>

====
